---- MODULE Spec2Model ----
(***************************************************************************)
(* sign-easy-app: the field-tracking store (useFieldTracking), the         *)
(* placement surface (DocumentPreview, DocumentFieldOverlay), the upload   *)
(* list (DocumentUpload) and the signed-document generator (PdfGenerator). *)
(*                                                                         *)
(* React state is modelled as React keeps it: every useState cell has the  *)
(* value of the last render, which is what the handlers of that render     *)
(* read through their closures, and a queue of updates that the next       *)
(* render applies.  A queue of plain values (setX(v)) is kept as its last  *)
(* value, which is what processing it in order leaves; the queue of the    *)
(* store holds functional updaters (setX(prev => ...)) and is kept whole.  *)
(***************************************************************************)
EXTENDS Integers, Sequences, FiniteSets, TLC

VARIABLES
    uploadedFiles,        \* DocumentUpload: useState<File[]>, last rendered value
    uploadedNext,         \* pending setUploadedFiles value, or NoUpdate
    previewFile,          \* DocumentUpload: useState<File | null>
    previewNext,          \* pending setPreviewFile value, or NoUpdate
    documentsWithFields,  \* useFieldTracking: Map<string, PlacedField[]>
    storeQueue,           \* pending updaters of setDocumentsWithFields, in call order
    placedFields,         \* DocumentPreview: useState<PlacedField[]>
    placedNext,           \* pending setPlacedFields value, or NoUpdate
    activeField,          \* DocumentPreview: useState<{id, type} | null>
    activeNext,           \* pending setActiveField value, or NoUpdate
    currentPage,          \* DocumentPreview: useState(1)
    dndActive,            \* DndContext: the draggable of the gesture under way, or NoDrag
    textContent,          \* DocumentPreview: useState<string>("")
    textNext,             \* pending setTextContent value, or NoUpdate
    previewUrl,           \* DocumentPreview: useState<string>("")
    urlNext,              \* pending setPreviewUrl value, or NoUpdate
    isLoading,            \* DocumentPreview: useState(false)
    loadingNext,          \* pending setIsLoading value, or NoUpdate
    reads,                \* file.text() promises not yet settled, each with its effect's isMounted
    now,                  \* what Date.now() returns
    batch,                \* handlers run since the last render
    pdfPc,                \* position of the finalize / generate operation
    pdfEntry,             \* which exported function the operation entered through
    originalFile,         \* the File handed to the operation, with its source pages
    fieldPositions,       \* the field list handed to the operation
    signatureData,        \* {name, email, date, signature}
    faults,               \* which library calls of this run throw
    isGeneratingPDF,      \* DocumentUpload: useState(false)
    alerts,               \* alert() messages shown by the operation, in order
    pdfResult,            \* what generateSignedPDF settled with
    downloaded            \* downloadBlob calls: <<blob, filename>>

uiVars == <<uploadedFiles, uploadedNext, previewFile, previewNext, documentsWithFields,
            storeQueue, placedFields, placedNext, activeField, activeNext, currentPage,
            dndActive, textContent, textNext, previewUrl, urlNext, isLoading, loadingNext,
            reads, now, batch>>

loadVars == <<textContent, textNext, previewUrl, urlNext, isLoading, loadingNext, reads>>

pdfVars == <<pdfPc, pdfEntry, originalFile, fieldPositions, signatureData, faults,
             isGeneratingPDF, alerts, pdfResult, downloaded>>

vars == <<uploadedFiles, uploadedNext, previewFile, previewNext, documentsWithFields,
          storeQueue, placedFields, placedNext, activeField, activeNext, currentPage,
          dndActive, textContent, textNext, previewUrl, urlNext, isLoading, loadingNext,
          reads, now, batch, pdfPc, pdfEntry, originalFile, fieldPositions,
          signatureData, faults, isGeneratingPDF, alerts, pdfResult, downloaded>>

-----------------------------------------------------------------------------
(* Bounds of the model *)

\* files in the upload list
MaxUploads == 2
\* fields in a preview's list
MaxFields == 2
\* Date.now() runs over 0..MaxTime
MaxTime == 1
\* handlers that may run before React renders
MaxBatch == 2
\* pages of a source PDF
MaxPages == 3
\* fields handed to the generator
MaxPdfFields == 2

\* A pending plain update holds the value last passed to the setter.
NoUpdate == <<>>
Pending(value) == <<value>>
Latest(current, next) == IF next = NoUpdate THEN current ELSE next[1]


-----------------------------------------------------------------------------
(* Strings.  A string is a sequence of pieces, a piece being a character or a *)
(* run of characters the model never looks into; template literals and +     *)
(* concatenate.                                                              *)

Digit(d) == CASE d = 0 -> "0" [] d = 1 -> "1" [] d = 2 -> "2" [] d = 3 -> "3"
              [] d = 4 -> "4" [] d = 5 -> "5" [] d = 6 -> "6" [] d = 7 -> "7"
              [] d = 8 -> "8" [] d = 9 -> "9"

RECURSIVE NumberToString(_)
NumberToString(n) ==
    IF n < 10 THEN <<Digit(n)>> ELSE NumberToString(n \div 10) \o <<Digit(n % 10)>>

-----------------------------------------------------------------------------
(* Files.  A File object has its own identity (oid); FileA and FileA2 are    *)
(* two uploads that agree in name, size and lastModified.                    *)

PdfType == "application/pdf"
DocType == "application/msword"
DocxType == "application/vnd.openxmlformats-officedocument.wordprocessingml.document"
TextType == "text/plain"

FileA == [oid |-> 1, name |-> <<"a", ".", "pdf">>, size |-> 1, lastModified |-> 12, type |-> PdfType]
FileA2 == [oid |-> 2, name |-> <<"a", ".", "pdf">>, size |-> 1, lastModified |-> 12, type |-> PdfType]
FileB == [oid |-> 3, name |-> <<"a", "-", "1", ".", "doc">>, size |-> 2, lastModified |-> 12, type |-> DocType]

Files == {FileA, FileA2, FileB}

\* previewFile = null
NoFile == [oid |-> 0, name |-> <<>>, size |-> 0, lastModified |-> 0, type |-> "null"]

\* the key, had it been the file's name alone
getDocumentKeyByName(file) == file.name

getDocumentKey(file) ==
    file.name \o <<"-">> \o NumberToString(file.size) \o <<"-">> \o NumberToString(file.lastModified)

Keys == {getDocumentKey(f) : f \in Files}

-----------------------------------------------------------------------------
(* Field kinds and placed fields *)

FieldType == {"signature", "name", "email", "date"}

\* `placed-${fieldType}-${Date.now()}`: two ids are the same string exactly when
\* kind and timestamp agree (no kind contains "-").
\* the id, had the template left the kind out
PlacedIdWithoutKind(fieldType, t) == <<"placed", "-", t>>

PlacedId(fieldType, t) == <<"placed", "-", fieldType, "-", t>>

Max(a, b) == IF a >= b THEN a ELSE b
Min(a, b) == IF a <= b THEN a ELSE b

DefaultWidth(fieldType) == IF fieldType = "signature" THEN 120 ELSE 100
DefaultHeight(fieldType) == IF fieldType = "signature" THEN 40 ELSE 30

\* the field, had the commit given it a value
NewFieldFilled(fieldType, t, x, y, page) ==
    [id |-> PlacedId(fieldType, t), type |-> fieldType, x |-> x, y |-> y, page |-> page,
     width |-> DefaultWidth(fieldType), height |-> DefaultHeight(fieldType),
     value |-> <<"A", "n", "n">>]

NewField(fieldType, t, x, y, page) ==
    [id |-> PlacedId(fieldType, t), type |-> fieldType, x |-> x, y |-> y, page |-> page,
     width |-> DefaultWidth(fieldType), height |-> DefaultHeight(fieldType)]

\* PlacedField declares no value: field.value is undefined unless the object has one.
HasValue(field) == "value" \in DOMAIN field

-----------------------------------------------------------------------------
(* useFieldTracking *)

SetUpdater(key, fields) == [op |-> "set", key |-> key, fields |-> fields]
DeleteUpdater(key) == [op |-> "delete", key |-> key]

MapSet(map, key, value) ==
    [k \in DOMAIN map \cup {key} |-> IF k = key THEN value ELSE map[k]]

MapDelete(map, key) == [k \in DOMAIN map \ {key} |-> map[k]]

\* the updater, had removal left the map as it was
ApplyUpdaterKeeping(prev, u) ==
    IF u.op = "set" THEN MapSet(prev, u.key, u.fields) ELSE prev

\* the updater, had removal stored an empty list under the key
ApplyUpdaterEmptying(prev, u) ==
    IF u.op = "set" THEN MapSet(prev, u.key, u.fields) ELSE MapSet(prev, u.key, <<>>)

\* the updater, had it started from new Map() instead of new Map(prev)
ApplyUpdaterClearing(prev, u) ==
    IF u.op = "set" THEN MapSet(<<>>, u.key, u.fields) ELSE <<>>

\* the updater, had it appended to the list already stored
ApplyUpdaterMerging(prev, u) ==
    IF u.op = "set"
    THEN MapSet(prev, u.key, (IF u.key \in DOMAIN prev THEN prev[u.key] ELSE <<>>) \o u.fields)
    ELSE MapDelete(prev, u.key)

\* the updater, had it copied the map of the last render instead of prev
ApplyUpdaterStale(prev, u) ==
    IF u.op = "set" THEN MapSet(documentsWithFields, u.key, u.fields)
    ELSE MapDelete(documentsWithFields, u.key)

\* (prev) => { const newMap = new Map(prev); newMap.set(key, fields) / newMap.delete(key); return newMap }
ApplyUpdater(prev, u) ==
    IF u.op = "set" THEN MapSet(prev, u.key, u.fields) ELSE MapDelete(prev, u.key)

\* React runs the queued updaters in call order, each on the result of the one before.
RECURSIVE ProcessQueue(_, _)
ProcessQueue(state, queue) ==
    IF queue = <<>> THEN state
    ELSE ProcessQueue(ApplyUpdater(state, Head(queue)), Tail(queue))

updateDocumentFields(file, fields) == Append(storeQueue, SetUpdater(getDocumentKey(file), fields))

removeDocumentFields(file) == Append(storeQueue, DeleteUpdater(getDocumentKey(file)))

\* documentsWithFields.get(key) || [] : an array, empty or not, is truthy.
GetFrom(map, file) ==
    IF getDocumentKey(file) \in DOMAIN map THEN map[getDocumentKey(file)] ELSE <<>>

getDocumentFields(file) == GetFrom(documentsWithFields, file)

hasFields(file) == Len(getDocumentFields(file)) > 0

getFieldCount(file) == Len(getDocumentFields(file))

-----------------------------------------------------------------------------
(* Inputs of the handlers *)

DropZone == "document-drop-zone"
NoOver == "null"
Overs == {NoOver, DropZone, "elsewhere"}

\* event.delta of a drag end: the pointer's travel since drag start.
Deltas == {<<-200, 40>>}

\* (clientX - rect.left, clientY - rect.top) of a native drop on the overlay.
DropPoints == {<<10, 80>>}

\* the kinds dragged in the runs
Kinds == {"signature", "name"}

\* activeField = null
NoActive == [id |-> <<>>, type |-> "null"]

\* active.data.current of a draggable: the toolbox tokens carry type "field".
Tokens == [type : {"field"}, fieldType : Kinds]
Actives == Tokens \cup {[type |-> "other", fieldType |-> "name"]}

\* DndContext has no gesture under way
NoDrag == [type |-> "none", fieldType |-> "none"]

ActiveId(active) == <<"field", "-", active.fieldType>>

PlacedIds == {PlacedId(t, n) : t \in Kinds, n \in 0..MaxTime}

CanHandle == batch < MaxBatch
Mounted == previewFile # NoFile

-----------------------------------------------------------------------------
(* DocumentUpload *)

\* the form's "files" value: form.setValue runs at once, beside setUploadedFiles
FormFiles == Latest(uploadedFiles, uploadedNext)

RemoveAt(seq, index) ==
    [i \in 1..(Len(seq) - 1) |-> IF i < index THEN seq[i] ELSE seq[i + 1]]

onDrop(acceptedFile) ==
    /\ CanHandle
    /\ batch' = batch + 1
    /\ Len(uploadedFiles) < MaxUploads
    /\ uploadedNext' = Pending(Append(uploadedFiles, acceptedFile))
    /\ UNCHANGED <<uploadedFiles, previewFile, previewNext, documentsWithFields, storeQueue,
                   placedFields, placedNext, activeField, activeNext, currentPage, now>>
    /\ UNCHANGED <<dndActive, loadVars, pdfVars>>

removeFile(index) ==
    /\ CanHandle
    /\ batch' = batch + 1
    /\ index \in 1..Len(uploadedFiles)
    /\ storeQueue' = removeDocumentFields(uploadedFiles[index])
    /\ uploadedNext' = Pending(RemoveAt(uploadedFiles, index))
    /\ UNCHANGED <<uploadedFiles, previewFile, previewNext, documentsWithFields,
                   placedFields, placedNext, activeField, activeNext, currentPage, now>>
    /\ UNCHANGED <<dndActive, loadVars, pdfVars>>

\* the form's submit: zod wants at least one file; the first one is previewed
onSubmit ==
    /\ CanHandle
    /\ batch' = batch + 1
    /\ Len(FormFiles) > 0
    /\ previewNext' = Pending(FormFiles[1])
    /\ UNCHANGED <<uploadedFiles, uploadedNext, previewFile, documentsWithFields, storeQueue,
                   placedFields, placedNext, activeField, activeNext, currentPage, now>>
    /\ UNCHANGED <<dndActive, loadVars, pdfVars>>

HasPreviewButton(file) == file.type \in {PdfType, DocType, DocxType}

\* the eye button of a listed file
PreviewClicked(index) ==
    /\ CanHandle
    /\ batch' = batch + 1
    /\ index \in 1..Len(uploadedFiles)
    /\ HasPreviewButton(uploadedFiles[index])
    /\ previewNext' = Pending(uploadedFiles[index])
    /\ UNCHANGED <<uploadedFiles, uploadedNext, previewFile, documentsWithFields, storeQueue,
                   placedFields, placedNext, activeField, activeNext, currentPage, now>>
    /\ UNCHANGED <<dndActive, loadVars, pdfVars>>

\* onClose={() => setPreviewFile(null)}
onClose ==
    /\ CanHandle
    /\ batch' = batch + 1
    /\ Mounted
    /\ previewNext' = Pending(NoFile)
    /\ UNCHANGED <<uploadedFiles, uploadedNext, previewFile, documentsWithFields, storeQueue,
                   placedFields, placedNext, activeField, activeNext, currentPage, now>>
    /\ UNCHANGED <<dndActive, loadVars, pdfVars>>

\* handleFieldsChanged(previewFile, fields), previewFile being the one of the last render
handleFieldsChanged(file, fields) == updateDocumentFields(file, fields)

-----------------------------------------------------------------------------
(* DocumentPreview, with DocumentFieldOverlay as its drop surface: the       *)
(* overlay's onFieldPlaced, onFieldRemoved, placedFields and currentPage are *)
(* the preview's handleFieldPlaced, handleFieldRemoved, placedFields and     *)
(* currentPage.                                                              *)

\* handleFieldPlaced: the list of the last render plus the field, set locally and
\* handed to onFieldsChanged
\* the placement, had it changed the local list only
handleFieldPlacedLocally(field) ==
    /\ placedNext' = Pending(Append(placedFields, field))
    /\ storeQueue' = storeQueue

handleFieldPlaced(field) ==
    /\ placedNext' = Pending(Append(placedFields, field))
    /\ storeQueue' = handleFieldsChanged(previewFile, Append(placedFields, field))

Filter(seq, Keep(_)) == SelectSeq(seq, Keep)

WithoutId(fields, fieldId) ==
    LET Keep(field) == field.id # fieldId IN Filter(fields, Keep)

handleFieldRemoved(fieldId) ==
    /\ CanHandle
    /\ batch' = batch + 1
    /\ Mounted
    /\ placedNext' = Pending(WithoutId(placedFields, fieldId))
    /\ storeQueue' = handleFieldsChanged(previewFile, WithoutId(placedFields, fieldId))
    /\ UNCHANGED <<uploadedFiles, uploadedNext, previewFile, previewNext, documentsWithFields,
                   placedFields, activeField, activeNext, currentPage, now>>
    /\ UNCHANGED <<dndActive, loadVars, pdfVars>>

handleDragStart(active) ==
    /\ CanHandle
    /\ batch' = batch + 1
    /\ Mounted
    /\ activeNext' = IF active.type = "field"
                     THEN Pending([id |-> ActiveId(active), type |-> active.fieldType])
                     ELSE activeNext
    /\ UNCHANGED <<uploadedFiles, uploadedNext, previewFile, previewNext, documentsWithFields,
                   storeQueue, placedFields, placedNext, activeField, currentPage, now>>
    /\ UNCHANGED <<loadVars, pdfVars>>

NoDelta == <<>>

DragEndCommits(active, over, delta) ==
    over = DropZone /\ active.type = "field" /\ delta # NoDelta

\* x = delta.x + 100, y = delta.y + 100; the field is put at (max(0, x - 50), max(0, y - 15))
DragEndField(active, delta) ==
    NewField(active.fieldType, now, Max(0, (delta[1] + 100) - 50), Max(0, (delta[2] + 100) - 15),
             currentPage)

handleDragEnd(active, over, delta) ==
    /\ CanHandle
    /\ batch' = batch + 1
    /\ Mounted
    /\ activeNext' = Pending(NoActive)
    /\ IF DragEndCommits(active, over, delta)
       THEN /\ Len(placedFields) < MaxFields
                    /\ handleFieldPlaced(DragEndField(active, delta))
       ELSE UNCHANGED <<placedNext, storeQueue>>
    /\ UNCHANGED <<uploadedFiles, uploadedNext, previewFile, previewNext, documentsWithFields,
                   placedFields, activeField, currentPage, now>>
    /\ UNCHANGED <<loadVars, pdfVars>>

\* <DndContext onDragStart={handleDragStart} onDragEnd={handleDragEnd}>: the
\* library has one gesture under way at most; it calls onDragStart when one
\* begins, onDragEnd with that gesture's draggable when it is dropped, and
\* onDragCancel, for which the component passes no handler, when it is cancelled.
onDragStart(active) ==
    /\ dndActive = NoDrag
    /\ dndActive' = active
    /\ handleDragStart(active)

onDragEnd(over, delta) ==
    /\ dndActive # NoDrag
    /\ dndActive' = NoDrag
    /\ handleDragEnd(dndActive, over, delta)

onDragCancel ==
    /\ Mounted
    /\ dndActive # NoDrag
    /\ dndActive' = NoDrag
    /\ UNCHANGED <<uploadedFiles, uploadedNext, previewFile, previewNext, documentsWithFields,
                   storeQueue, placedFields, placedNext, activeField, activeNext, currentPage,
                   now, batch>>
    /\ UNCHANGED <<loadVars, pdfVars>>

\* event.dataTransfer.getData("fieldType") is "" when the drag carries none
NoFieldType == ""

DropCommits(activeElement, fieldType) == ~activeElement /\ fieldType # NoFieldType

\* x = clientX - rect.left, y = clientY - rect.top; the field is put at (x - 50, y - 15)
DropField(point, fieldType) ==
    NewField(fieldType, now, point[1] - 50, point[2] - 15, currentPage)

handleDrop(point, activeElement, fieldType) ==
    /\ CanHandle
    /\ batch' = batch + 1
    /\ Mounted
    /\ IF DropCommits(activeElement, fieldType)
       THEN /\ Len(placedFields) < MaxFields
                    /\ handleFieldPlaced(DropField(point, fieldType))
       ELSE UNCHANGED <<placedNext, storeQueue>>
    /\ UNCHANGED <<uploadedFiles, uploadedNext, previewFile, previewNext, documentsWithFields,
                   placedFields, activeField, activeNext, currentPage, now>>
    /\ UNCHANGED <<dndActive, loadVars, pdfVars>>

-----------------------------------------------------------------------------
(* DocumentPreview: what the dialog shows of the file.  The effect on [file]  *)
(* runs createPreview, which for a text file awaits file.text(); the effect's *)
(* cleanup clears the isMounted flag that the code after the await consults.  *)

FileT == [oid |-> 4, name |-> <<"t", ".", "txt">>, size |-> 3, lastModified |-> 12, type |-> TextType]
FileU == [oid |-> 5, name |-> <<"u", ".", "txt">>, size |-> 4, lastModified |-> 12, type |-> TextType]

TextFiles == {FileT, FileU}

\* what file.text() resolves with
TextOf(file) == <<"text of ">> \o NumberToString(file.oid)

\* URL.createObjectURL(file)
UrlOf(file) == <<"blob:">> \o NumberToString(file.oid)

EndsWithTxt(name) ==
    Len(name) >= 2 /\ name[Len(name) - 1] = "." /\ name[Len(name)] = "txt"

IsTextFile(file) == file.type = TextType \/ EndsWithTxt(file.name)

\* the value previewUrl is last set to before createPreview's first await
EffectUrl(file) == IF file.type = PdfType THEN UrlOf(file) ELSE <<>>

\* the value isLoading is last set to before createPreview's first await
EffectLoading(file) == file.type # PdfType /\ IsTextFile(file)

\* the cleanup of the effect: isMounted = false
CleanedUp(pending) == {[file |-> r.file, isMounted |-> FALSE] : r \in pending}

\* the reads under way once the effect has run for the file
EffectReads(file) ==
    IF file # NoFile /\ EffectLoading(file) THEN {[file |-> file, isMounted |-> TRUE]} ELSE {}

isMounted(read) == read.isMounted

\* createPreview resumed after `await file.text()`: the promise resolved with
\* the text, or rejected
ReadSettles(read, resolved) ==
    /\ CanHandle
    /\ read \in reads
    /\ reads' = reads \ {read}
    /\ IF isMounted(read)
       THEN /\ textNext' = IF resolved THEN Pending(TextOf(read.file)) ELSE textNext
            /\ loadingNext' = Pending(FALSE)
            /\ batch' = batch + 1
       ELSE UNCHANGED <<textNext, loadingNext, batch>>
    /\ UNCHANGED <<uploadedFiles, uploadedNext, previewFile, previewNext, documentsWithFields,
                   storeQueue, placedFields, placedNext, activeField, activeNext, currentPage,
                   dndActive, textContent, previewUrl, urlNext, isLoading, now>>
    /\ UNCHANGED pdfVars

\* what renderPreview puts in the <pre> of the dialog
ShownText ==
    IF previewFile # NoFile /\ ~isLoading /\ previewFile.type # PdfType
       /\ IsTextFile(previewFile)
    THEN textContent ELSE <<>>

-----------------------------------------------------------------------------
(* A render: every queue is processed; DocumentPreview is mounted while      *)
(* previewFile is a file, and takes initialFields only when it mounts.       *)
(* The effect on [file] runs after the render that mounts the component or   *)
(* changes its file: the cells keep their values for that render and the     *)
(* effect's updates wait for the next one.                                   *)

Render ==
    LET newStore == ProcessQueue(documentsWithFields, storeQueue)
        newPreview == Latest(previewFile, previewNext)
        mounts == newPreview # NoFile /\ previewFile = NoFile
        effectRuns == newPreview # NoFile /\ newPreview # previewFile
    IN  /\ batch > 0
        /\ batch' = IF effectRuns THEN 1 ELSE 0
        /\ documentsWithFields' = newStore
        /\ storeQueue' = <<>>
        /\ uploadedFiles' = Latest(uploadedFiles, uploadedNext)
        /\ uploadedNext' = NoUpdate
        /\ previewFile' = newPreview
        /\ previewNext' = NoUpdate
        /\ placedFields' = IF newPreview = NoFile THEN <<>>
                           ELSE IF previewFile = NoFile THEN GetFrom(newStore, newPreview)
                           ELSE Latest(placedFields, placedNext)
        /\ placedNext' = NoUpdate
        /\ activeField' = IF newPreview = NoFile \/ previewFile = NoFile THEN NoActive
                          ELSE Latest(activeField, activeNext)
        /\ activeNext' = NoUpdate
        /\ currentPage' = IF newPreview = NoFile \/ previewFile = NoFile THEN 1 ELSE currentPage
        /\ now' = now
        /\ dndActive' = IF newPreview = NoFile THEN NoDrag ELSE dndActive
        /\ textContent' = IF newPreview = NoFile \/ mounts THEN <<>>
                          ELSE Latest(textContent, textNext)
        /\ previewUrl' = IF newPreview = NoFile \/ mounts THEN <<>>
                         ELSE Latest(previewUrl, urlNext)
        /\ isLoading' = IF newPreview = NoFile \/ mounts THEN FALSE
                        ELSE Latest(isLoading, loadingNext)
        /\ textNext' = IF effectRuns THEN Pending(<<>>) ELSE NoUpdate
        /\ urlNext' = IF effectRuns THEN Pending(EffectUrl(newPreview)) ELSE NoUpdate
        /\ loadingNext' = IF effectRuns THEN Pending(EffectLoading(newPreview)) ELSE NoUpdate
        /\ reads' = IF newPreview = previewFile THEN reads
                    ELSE CleanedUp(reads) \cup EffectReads(newPreview)
        /\ UNCHANGED pdfVars

\* the clock moves on
Tick ==
    /\ now < MaxTime
    /\ now' = now + 1
    /\ UNCHANGED <<uploadedFiles, uploadedNext, previewFile, previewNext, documentsWithFields,
                   storeQueue, placedFields, placedNext, activeField, activeNext, currentPage,
                   batch>>
    /\ UNCHANGED <<dndActive, loadVars, pdfVars>>

-----------------------------------------------------------------------------
(* PdfGenerator.  Coordinates are exact fractions num/den where the code     *)
(* computes in doubles.                                                      *)

Whole(k) == [num |-> k, den |-> 1]
Div(a, b) == [num |-> a, den |-> b]
Times(r, k) == [num |-> r.num * k, den |-> r.den]
IntMinus(k, r) == [num |-> k * r.den - r.num, den |-> r.den]
MinusInt(r, k) == [num |-> r.num - k * r.den, den |-> r.den]
SameNumber(r, q) == r.num * q.den = q.num * r.den

PreviewWidth == 600
PreviewHeight == 800
VerticalAdjust == 20
SignatureDrop == 30
SignatureCapWidth == 120
SignatureCapHeight == 40

\* the fault points of a run: the library calls that throw in it
FaultPoints == {"load", "embedSignature", "copyPages", "saveOriginal", "saveSummary"}

Letter == [width |-> 612, height |-> 792]
A4 == [width |-> 595, height |-> 842]

\* the pages PDFDocument.load finds in a source PDF of n pages
SourcePages(n) ==
    [i \in 1..n |-> [src |-> i, size |-> IF i = 1 THEN Letter ELSE A4, draws |-> <<>>]]

DrawText(text, x, y, size, font) ==
    [op |-> "text", text |-> text, x |-> x, y |-> y, size |-> size, font |-> font,
     width |-> 0, height |-> 0]

DrawImage(x, y, width, height) ==
    [op |-> "image", text |-> <<>>, x |-> x, y |-> y, size |-> 0, font |-> "none",
     width |-> width, height |-> height]

PdfBlob(pages) == [type |-> PdfType, pages |-> pages]
NoBlob == [type |-> "none", pages |-> <<>>]

Returned(blob) == [state |-> "resolved", blob |-> blob, error |-> ""]
Thrown(error) == [state |-> "rejected", blob |-> NoBlob, error |-> error]
NoResult == [state |-> "none", blob |-> NoBlob, error |-> ""]

\* signatureImage, had it been taken as set whenever there is a signature
SignatureImageOfUnchecked(sig) == sig.signature # <<>>

\* signatureImage is set when there is a signature and converting and embedding it works
SignatureImageOf(sig) == sig.signature # <<>> /\ "embedSignature" \notin faults

PdfX(field, size) == Times(Div(field.x, PreviewWidth), size.width)

\* the y transform, had it not flipped the axis
PdfYNoFlip(field, size) ==
    MinusInt(Times(Div(field.y, PreviewHeight), size.height), VerticalAdjust)

PdfY(field, size) ==
    MinusInt(IntMinus(size.height, Times(Div(field.y, PreviewHeight), size.height)), VerticalAdjust)

\* field.width * 1.5 and field.height * 1.5: the default sizes are even
Scaled(n) == (n * 3) \div 2

DrawField(field, size, sig, signatureImage) ==
    CASE field.type = "signature" ->
            IF signatureImage
            THEN DrawImage(PdfX(field, size), MinusInt(PdfY(field, size), SignatureDrop),
                           Min(Scaled(field.width), SignatureCapWidth),
                           Min(Scaled(field.height), SignatureCapHeight))
            ELSE DrawText(<<"[Digital Signature]">>, PdfX(field, size), PdfY(field, size), 10,
                          "Helvetica")
      [] field.type = "name" ->
            DrawText(sig.name, PdfX(field, size), PdfY(field, size), 12, "Helvetica")
      [] field.type = "email" ->
            DrawText(sig.email, PdfX(field, size), PdfY(field, size), 10, "Helvetica")
      [] field.type = "date" ->
            DrawText(sig.date, PdfX(field, size), PdfY(field, size), 10, "Helvetica")

\* fieldsByPage: page number -> the fields of that page, in list order
FieldsByPage(fields) ==
    [pageNumber \in {fields[i].page : i \in DOMAIN fields} |->
        LET OnPage(field) == field.page = pageNumber IN SelectSeq(fields, OnPage)]

\* the range check, had it let pageIndex = pages.length through
PageInRangeOffByOne(pageNumber, pages) == pageNumber - 1 >= 0 /\ pageNumber - 1 <= Len(pages)

\* pageIndex >= 0 && pageIndex < pages.length, pageIndex being pageNumber - 1
PageInRange(pageNumber, pages) == pageNumber - 1 >= 0 /\ pageNumber - 1 < Len(pages)

DrawAll(fields, size, sig, signatureImage) ==
    [i \in DOMAIN fields |-> DrawField(fields[i], size, sig, signatureImage)]

DrawnPages(pages, fields, sig, signatureImage) ==
    LET byPage == FieldsByPage(fields)
    IN  [i \in DOMAIN pages |->
            IF i \in DOMAIN byPage /\ PageInRange(i, pages)
            THEN [pages[i] EXCEPT !.draws = @ \o DrawAll(byPage[i], pages[i].size, sig, signatureImage)]
            ELSE pages[i]]

\* pages[pageIndex] of a page number let through that the document does not have
\* is undefined, and page.getSize() throws
TouchesMissingPage(pages, fields) ==
    \E pageNumber \in DOMAIN FieldsByPage(fields) :
        PageInRange(pageNumber, pages) /\ pageNumber \notin DOMAIN pages

generatePDFWithPositionedFields(file, sig, fields) ==
    IF "load" \in faults THEN Thrown("load")
    ELSE IF TouchesMissingPage(file.pages, fields) THEN Thrown("TypeError")
    ELSE IF "saveOriginal" \in faults THEN Thrown("save")
    ELSE Returned(PdfBlob(DrawnPages(file.pages, fields, sig, SignatureImageOf(sig))))

SignatureLines(sig) ==
    IF sig.signature = <<>> THEN <<>>
    ELSE IF "embedSignature" \notin faults
         THEN <<DrawText(<<"Signature:">>, Whole(50), Whole(650 - 30 * 5), 12, "Helvetica-Bold"),
                DrawImage(Whole(50), Whole(650 - 30 * 8), 200, 80)>>
         ELSE <<DrawText(<<"Signature:", " ", "[Digital Signature Applied]">>,
                         Whole(50), Whole(650 - 30 * 5), 12, "Helvetica")>>

SummaryPage(sig) ==
    [src |-> 0, size |-> Letter,
     draws |->
        <<DrawText(<<"Document Signature">>, Whole(50), Whole(720), 24, "Helvetica-Bold"),
          DrawText(<<"Signer Information:">>, Whole(50), Whole(650), 16, "Helvetica-Bold"),
          DrawText(<<"Name:", " ">> \o sig.name, Whole(50), Whole(650 - 30), 12, "Helvetica"),
          DrawText(<<"Email:", " ">> \o sig.email, Whole(50), Whole(650 - 30 * 2), 12, "Helvetica"),
          DrawText(<<"Date:", " ">> \o sig.date, Whole(50), Whole(650 - 30 * 3), 12, "Helvetica")>>
        \o SignatureLines(sig)
        \o <<DrawText(<<"Document signed on: ", "toLocaleString">>, Whole(50), Whole(50), 10,
                      "Helvetica")>>]

\* the merge, had it added the summary page at the end (addPage)
InsertPageLast(pages, index, page) == Append(pages, page)

\* originalPdf.insertPage(0, signaturePage)
InsertPage(pages, index, page) ==
    [i \in 1..(Len(pages) + 1) |->
        IF i < index + 1 THEN pages[i] ELSE IF i = index + 1 THEN page ELSE pages[i - 1]]

SummaryAlone(sig) ==
    IF "saveSummary" \in faults THEN Thrown("save")
    ELSE Returned(PdfBlob(<<SummaryPage(sig)>>))

\* the fallback, had the merge gone without its try/catch
generateSignaturePagePDFUncaught(file, sig) ==
    IF file.file.type = PdfType
    THEN IF "load" \in faults \/ "copyPages" \in faults \/ "saveOriginal" \in faults
         THEN Thrown("merge")
         ELSE Returned(PdfBlob(InsertPage(file.pages, 0, SummaryPage(sig))))
    ELSE SummaryAlone(sig)

generateSignaturePagePDF(file, sig) ==
    IF file.file.type = PdfType
    THEN IF "load" \in faults \/ "copyPages" \in faults \/ "saveOriginal" \in faults
         THEN SummaryAlone(sig)
         ELSE Returned(PdfBlob(InsertPage(file.pages, 0, SummaryPage(sig))))
    ELSE SummaryAlone(sig)

generateSignedPDF(file, sig, fields) ==
    LET result == IF file.file.type = PdfType /\ Len(fields) > 0
                  THEN generatePDFWithPositionedFields(file, sig, fields)
                  ELSE generateSignaturePagePDF(file, sig)
    IN  IF result.state = "rejected" THEN Thrown("Failed to generate signed PDF") ELSE result

-----------------------------------------------------------------------------
(* DocumentUpload.handleDownloadDocument *)

IsSpace(piece) == piece = " "

RECURSIVE TrimStart(_)
TrimStart(text) ==
    IF text # <<>> /\ IsSpace(Head(text)) THEN TrimStart(Tail(text)) ELSE text

RECURSIVE TrimEnd(_)
TrimEnd(text) ==
    IF text # <<>> /\ IsSpace(text[Len(text)]) THEN TrimEnd(SubSeq(text, 1, Len(text) - 1))
    ELSE text

Trim(text) == TrimEnd(TrimStart(text))

\* the test, had it left out trim()
IsEmptyFieldUntrimmed(field) == ~HasValue(field) \/ field.value = <<>>

\* !field.value || field.value.trim() === ""
IsEmptyField(field) ==
    \/ ~HasValue(field)
    \/ field.value = <<>>
    \/ Trim(field.value) = <<>>

\* fields.find((f) => f.type === kind)?.value || ""
\* the value, had it been taken from the last field of the kind
LastValueOf(fields, kind) ==
    LET OfKind(field) == field.type = kind
        found == SelectSeq(fields, OfKind)
    IN  IF found # <<>> /\ HasValue(found[Len(found)]) THEN found[Len(found)].value ELSE <<>>

FirstValueOf(fields, kind) ==
    LET OfKind(field) == field.type = kind
        found == SelectSeq(fields, OfKind)
    IN  IF found # <<>> /\ HasValue(found[1]) THEN found[1].value ELSE <<>>

SignatureDataOf(fields) ==
    [name |-> FirstValueOf(fields, "name"), email |-> FirstValueOf(fields, "email"),
     date |-> FirstValueOf(fields, "date"), signature |-> FirstValueOf(fields, "signature")]

\* file.name.split(".")[0]
RECURSIVE BeforeFirstDot(_)
BeforeFirstDot(name) ==
    IF name = <<>> \/ Head(name) = "." THEN <<>>
    ELSE <<Head(name)>> \o BeforeFirstDot(Tail(name))

SignedFilename(file) == BeforeFirstDot(file.name) \o <<"_signed.pdf">>

AddFieldsAlert == "Please add and fill some fields before downloading."
FillFieldsAlert == "Please fill in all fields before downloading."
ErrorAlert == "Error generating signed document. Please try again."

uiUnchanged ==
    UNCHANGED <<uploadedFiles, uploadedNext, previewFile, previewNext, documentsWithFields,
                storeQueue, placedFields, placedNext, activeField, activeNext, currentPage,
                dndActive, textContent, textNext, previewUrl, urlNext, isLoading,
                loadingNext, reads, now, batch>>

\* the handler, had it gone without the check for an empty list
handleDownloadDocumentUnguarded ==
    LET fields == getDocumentFields(originalFile.file)
        EmptyOne(field) == IsEmptyField(field)
    IN  /\ pdfPc = "start"
        /\ pdfEntry = "handleDownloadDocument"
        /\ IF Len(SelectSeq(fields, EmptyOne)) > 0
           THEN /\ alerts' = Append(alerts, FillFieldsAlert)
                /\ pdfPc' = "done"
                /\ UNCHANGED <<isGeneratingPDF, signatureData, fieldPositions>>
           ELSE /\ isGeneratingPDF' = TRUE
                /\ signatureData' = SignatureDataOf(fields)
                /\ fieldPositions' = fields
                /\ pdfPc' = "generating"
                /\ UNCHANGED alerts
        /\ UNCHANGED <<pdfEntry, originalFile, faults, pdfResult, downloaded>>
        /\ uiUnchanged

\* up to the first await: the two checks, setIsGeneratingPDF(true), the call
handleDownloadDocument ==
    LET fields == getDocumentFields(originalFile.file)
        EmptyOne(field) == IsEmptyField(field)
    IN  /\ pdfPc = "start"
        /\ pdfEntry = "handleDownloadDocument"
        /\ IF Len(fields) = 0
           THEN /\ alerts' = Append(alerts, AddFieldsAlert)
                /\ pdfPc' = "done"
                /\ UNCHANGED <<isGeneratingPDF, signatureData, fieldPositions>>
           ELSE IF Len(SelectSeq(fields, EmptyOne)) > 0
           THEN /\ alerts' = Append(alerts, FillFieldsAlert)
                /\ pdfPc' = "done"
                /\ UNCHANGED <<isGeneratingPDF, signatureData, fieldPositions>>
           ELSE /\ isGeneratingPDF' = TRUE
                /\ signatureData' = SignatureDataOf(fields)
                /\ fieldPositions' = fields
                /\ pdfPc' = "generating"
                /\ UNCHANGED alerts
        /\ UNCHANGED <<pdfEntry, originalFile, faults, pdfResult, downloaded>>
        /\ uiUnchanged

\* generateSignedPDF runs to its result
GenerateSignedPDF ==
    /\ pdfPc = "generating"
    /\ pdfResult' = generateSignedPDF(originalFile, signatureData, fieldPositions)
    /\ pdfPc' = IF pdfEntry = "handleDownloadDocument" THEN "settled" ELSE "done"
    /\ UNCHANGED <<pdfEntry, originalFile, fieldPositions, signatureData, faults,
                   isGeneratingPDF, alerts, downloaded>>
    /\ uiUnchanged

\* the continuation, had setIsGeneratingPDF(false) stood at the end of the try block
handleDownloadDocumentResumedNoFinally ==
    /\ pdfPc = "settled"
    /\ IF pdfResult.state = "resolved"
       THEN /\ downloaded' = Append(downloaded, [blob |-> pdfResult.blob,
                                                 filename |-> SignedFilename(originalFile.file)])
            /\ isGeneratingPDF' = FALSE
            /\ UNCHANGED alerts
       ELSE /\ alerts' = Append(alerts, ErrorAlert)
            /\ UNCHANGED <<downloaded, isGeneratingPDF>>
    /\ pdfPc' = "done"
    /\ UNCHANGED <<pdfEntry, originalFile, fieldPositions, signatureData, faults, pdfResult>>
    /\ uiUnchanged

\* after the await: downloadBlob, or the catch's alert; finally setIsGeneratingPDF(false)
handleDownloadDocumentResumed ==
    /\ pdfPc = "settled"
    /\ IF pdfResult.state = "resolved"
       THEN /\ downloaded' = Append(downloaded, [blob |-> pdfResult.blob,
                                                 filename |-> SignedFilename(originalFile.file)])
            /\ UNCHANGED alerts
       ELSE /\ alerts' = Append(alerts, ErrorAlert)
            /\ UNCHANGED downloaded
    /\ isGeneratingPDF' = FALSE
    /\ pdfPc' = "done"
    /\ UNCHANGED <<pdfEntry, originalFile, fieldPositions, signatureData, faults, pdfResult>>
    /\ uiUnchanged

-----------------------------------------------------------------------------
(* The finalize operation at rest *)

NoSignatureData == [name |-> <<>>, email |-> <<>>, date |-> <<>>, signature |-> <<>>]

PdfIdle ==
    /\ pdfPc = "idle"
    /\ pdfEntry = "none"
    /\ originalFile = [file |-> NoFile, pages |-> <<>>]
    /\ fieldPositions = <<>>
    /\ signatureData = NoSignatureData
    /\ faults = {}
    /\ isGeneratingPDF = FALSE
    /\ alerts = <<>>
    /\ pdfResult = NoResult
    /\ downloaded = <<>>

UiInit ==
    /\ uploadedFiles = <<>>
    /\ uploadedNext = NoUpdate
    /\ previewFile = NoFile
    /\ previewNext = NoUpdate
    /\ documentsWithFields = <<>>
    /\ storeQueue = <<>>
    /\ placedFields = <<>>
    /\ placedNext = NoUpdate
    /\ activeField = NoActive
    /\ activeNext = NoUpdate
    /\ currentPage = 1
    /\ dndActive = NoDrag
    /\ textContent = <<>>
    /\ textNext = NoUpdate
    /\ previewUrl = <<>>
    /\ urlNext = NoUpdate
    /\ isLoading = FALSE
    /\ loadingNext = NoUpdate
    /\ reads = {}
    /\ now = 0
    /\ batch = 0

Init == UiInit /\ PdfIdle

Next ==
    \/ \E file \in Files : onDrop(file)
    \/ \E index \in 1..MaxUploads : removeFile(index)
    \/ onSubmit
    \/ \E index \in 1..MaxUploads : PreviewClicked(index)
    \/ onClose
    \/ \E active \in Actives : onDragStart(active)
    \/ \E over \in Overs, delta \in Deltas \cup {NoDelta} : onDragEnd(over, delta)
    \/ onDragCancel
    \/ \E point \in DropPoints, activeElement \in BOOLEAN, fieldType \in Kinds \cup {NoFieldType} :
          handleDrop(point, activeElement, fieldType)
    \/ \E fieldId \in PlacedIds : handleFieldRemoved(fieldId)
    \/ Render
    \/ Tick

Spec == Init /\ [][Next]_vars

-----------------------------------------------------------------------------
(* DocumentPreview alone: the component as mounted on FileA with no initial  *)
(* fields, its parent's store behind onFieldsChanged; toolbox tokens are     *)
(* dragged to their drop, dropped natively, and fields removed.              *)

PreviewInit ==
    /\ uploadedFiles = <<FileA>>
    /\ uploadedNext = NoUpdate
    /\ previewFile = FileA
    /\ previewNext = NoUpdate
    /\ documentsWithFields = <<>>
    /\ storeQueue = <<>>
    /\ placedFields = <<>>
    /\ placedNext = NoUpdate
    /\ activeField = NoActive
    /\ activeNext = NoUpdate
    /\ currentPage = 1
    /\ dndActive = NoDrag
    /\ textContent = <<>>
    /\ textNext = NoUpdate
    /\ previewUrl = UrlOf(FileA)
    /\ urlNext = NoUpdate
    /\ isLoading = FALSE
    /\ loadingNext = NoUpdate
    /\ reads = {}
    /\ now = 0
    /\ batch = 0
    /\ PdfIdle

PreviewNext ==
    \/ \E active \in Tokens : onDragStart(active)
    \/ \E over \in Overs, delta \in Deltas \cup {NoDelta} : onDragEnd(over, delta)
    \/ \E point \in DropPoints, activeElement \in BOOLEAN, fieldType \in Kinds \cup {NoFieldType} :
          handleDrop(point, activeElement, fieldType)
    \/ \E fieldId \in PlacedIds : handleFieldRemoved(fieldId)
    \/ Render
    \/ Tick

SpecPreview == PreviewInit /\ [][PreviewNext]_vars

-----------------------------------------------------------------------------
(* useFieldTracking alone: the hook of a freshly constructed DocumentUpload, *)
(* its operations called with any file and any of a few lists.               *)

SampleName == NewField("name", 0, 50, 85, 1)
SampleSignature == NewField("signature", 1, 0, 125, 1)

SampleLists ==
    {<<>>, <<SampleName>>, <<SampleName, SampleSignature>>, <<SampleSignature, SampleName>>}

CallUpdateDocumentFields(file, fields) ==
    /\ CanHandle
    /\ batch' = batch + 1
    /\ storeQueue' = updateDocumentFields(file, fields)
    /\ UNCHANGED <<uploadedFiles, uploadedNext, previewFile, previewNext, documentsWithFields,
                   placedFields, placedNext, activeField, activeNext, currentPage, now>>
    /\ UNCHANGED <<dndActive, loadVars, pdfVars>>

CallRemoveDocumentFields(file) ==
    /\ CanHandle
    /\ batch' = batch + 1
    /\ storeQueue' = removeDocumentFields(file)
    /\ UNCHANGED <<uploadedFiles, uploadedNext, previewFile, previewNext, documentsWithFields,
                   placedFields, placedNext, activeField, activeNext, currentPage, now>>
    /\ UNCHANGED <<dndActive, loadVars, pdfVars>>

StoreNext ==
    \/ \E file \in Files, fields \in SampleLists : CallUpdateDocumentFields(file, fields)
    \/ \E file \in Files : CallRemoveDocumentFields(file)
    \/ Render

SpecStore == Init /\ [][StoreNext]_vars

-----------------------------------------------------------------------------
(* The finalize operation: handleDownloadDocument on a listed file whose     *)
(* stored list is any of a few, or generateSignedPDF called with any file,   *)
(* signer data and field list.                                               *)

SeqsUpTo(S, n) == UNION {[1..k -> S] : k \in 0..n}

Ann == <<"A", "n", "n">>
Bob == <<"B", "o", "b">>
Blank == <<" ">>

\* where the generator's fields sit on the preview, by kind
SamplePosition(fieldType) ==
    CASE fieldType = "name" -> <<100, 100>>
      [] fieldType = "signature" -> <<0, 0>>
      [] fieldType = "email" -> <<300, 400>>
      [] fieldType = "date" -> <<450, 790>>

FieldPages == {0, 1, 2, MaxPages + 2}
SourcePageCounts == {1, MaxPages}

GeneratorFields ==
    {NewField(t, 0, SamplePosition(t)[1], SamplePosition(t)[2], page) :
        t \in FieldType, page \in FieldPages}

WithValue(field, value) ==
    [k \in DOMAIN field \cup {"value"} |-> IF k = "value" THEN value ELSE field[k]]

\* fields as the store holds them (page 1), with or without a value
StoredFields ==
    {NewField(t, 0, 50, 85, 1) : t \in FieldType}
    \cup {WithValue(NewField(t, 0, 50, 85, 1), value) : t \in FieldType, value \in {<<>>, Blank, Ann, Bob}}

SourceFiles ==
    {[file |-> FileA, pages |-> SourcePages(n)] : n \in SourcePageCounts}
    \cup {[file |-> FileB, pages |-> <<>>]}

SignerData ==
    {[name |-> Ann, email |-> <<"ann@x.org">>, date |-> <<"2024-01-01">>, signature |-> image] :
        image \in {<<>>, <<"data:image/png;base64,", "AAAA">>}}

FaultSets == {{}} \cup {{point} : point \in FaultPoints}

PdfUi(file, store) ==
    /\ uploadedFiles = <<file>>
    /\ uploadedNext = NoUpdate
    /\ previewFile = NoFile
    /\ previewNext = NoUpdate
    /\ documentsWithFields = store
    /\ storeQueue = <<>>
    /\ placedFields = <<>>
    /\ placedNext = NoUpdate
    /\ activeField = NoActive
    /\ activeNext = NoUpdate
    /\ currentPage = 1
    /\ dndActive = NoDrag
    /\ textContent = <<>>
    /\ textNext = NoUpdate
    /\ previewUrl = <<>>
    /\ urlNext = NoUpdate
    /\ isLoading = FALSE
    /\ loadingNext = NoUpdate
    /\ reads = {}
    /\ now = 0
    /\ batch = 0

PdfRun(entry, pc, file, fields, sig, faulty) ==
    /\ pdfPc = pc
    /\ pdfEntry = entry
    /\ originalFile = file
    /\ fieldPositions = fields
    /\ signatureData = sig
    /\ faults = faulty
    /\ isGeneratingPDF = FALSE
    /\ alerts = <<>>
    /\ pdfResult = NoResult
    /\ downloaded = <<>>

DownloadInit ==
    \E file \in SourceFiles, stored \in SeqsUpTo(StoredFields, MaxPdfFields), faulty \in FaultSets :
        /\ \/ PdfUi(file.file, MapSet(<<>>, getDocumentKey(file.file), stored))
           \/ stored = <<>> /\ PdfUi(file.file, <<>>)
        /\ PdfRun("handleDownloadDocument", "start", file, <<>>, NoSignatureData, faulty)

GenerateInit ==
    \E file \in SourceFiles, fields \in SeqsUpTo(GeneratorFields, MaxPdfFields),
       sig \in SignerData, faulty \in FaultSets :
        /\ PdfUi(file.file, <<>>)
        /\ PdfRun("generateSignedPDF", "generating", file, fields, sig, faulty)

PdfInit == DownloadInit \/ GenerateInit

PdfNext ==
    \/ handleDownloadDocument
    \/ GenerateSignedPDF
    \/ handleDownloadDocumentResumed

SpecPdf == PdfInit /\ [][PdfNext]_vars

-----------------------------------------------------------------------------
(* Field lists in sight: the preview's list, the store's lists, and the      *)
(* lists of the queued updates.                                              *)

Range(seq) == {seq[i] : i \in DOMAIN seq}

QueuedLists == {storeQueue[i].fields : i \in {j \in DOMAIN storeQueue : storeQueue[j].op = "set"}}

FieldLists ==
    {placedFields} \cup Range(placedNext) \cup Range(documentsWithFields) \cup QueuedLists

HasId(fields, fieldId) == \E i \in DOMAIN fields : fields[i].id = fieldId

-----------------------------------------------------------------------------
(* C1: after any sequence of drag commits and removals, through            *)
(* handleDragEnd or handleDrop, every placed field has x >= 0 and y >= 0.  *)
(* handleDrop stores (x - 50, y - 15) unclamped, so a drop within 50 px of *)
(* the overlay's left edge or 15 px of its top breaks it.                  *)
C1_FieldsClamped ==
    \A fields \in FieldLists : \A i \in DOMAIN fields : fields[i].x >= 0 /\ fields[i].y >= 0

(* C2: no two fields of a list share an id, two placements of one kind at  *)
(* the same timestamp included.  The id is placed-<kind>-<Date.now()>, so  *)
(* two commits of one kind within a millisecond get the same id.           *)
C2_IdsUnique ==
    \A fields \in FieldLists :
        \A i, j \in DOMAIN fields : i # j => fields[i].id # fields[j].id

(* C3: handleFieldRemoved(id) on a list L that holds the id yields a list  *)
(* of length |L| - 1 without the id, the other fields kept in order; on a  *)
(* list that does not hold it, it yields L.  With two fields of one id in  *)
(* L (C2) the filter drops both.                                           *)
IsLWithoutOne(result, L, fieldId) ==
    \E k \in DOMAIN L : L[k].id = fieldId /\ result = RemoveAt(L, k)

C3_RemovalStep(fieldId) ==
    handleFieldRemoved(fieldId) =>
        IF HasId(placedFields, fieldId)
        THEN /\ Len(placedNext'[1]) = Len(placedFields) - 1
             /\ ~HasId(placedNext'[1], fieldId)
             /\ IsLWithoutOne(placedNext'[1], placedFields, fieldId)
        ELSE placedNext'[1] = placedFields

C3_RemovesExactlyOne == [][\A fieldId \in PlacedIds : C3_RemovalStep(fieldId)]_vars

AllFields == UNION {Range(fields) : fields \in FieldLists}

StampOf(field) == field.id[Len(field.id)]

(* C5: two placed fields created at the same millisecond from two          *)
(* different field kinds have different ids, through handleDragEnd and     *)
(* handleDrop alike.                                                       *)
C5_KindsKeepIdsApart ==
    \A f, g \in AllFields :
        (f.type # g.type /\ StampOf(f) = StampOf(g)) => f.id # g.id

\* the preview holds a dragged and a dropped field of two kinds with one timestamp
C5_Witness ==
    \E i, j \in DOMAIN placedFields :
        /\ placedFields[i].type # placedFields[j].type
        /\ StampOf(placedFields[i]) = StampOf(placedFields[j])
        /\ placedFields[i].x = 0
        /\ placedFields[j].x # 0

-----------------------------------------------------------------------------
(* The queued updates of one key, and the last of them *)

QueuedFor(key) == {i \in DOMAIN storeQueue : storeQueue[i].key = key}

LastQueuedFor(key) ==
    storeQueue[CHOOSE i \in QueuedFor(key) : \A j \in QueuedFor(key) : j <= i]

(* C4: updateDocumentFields(doc, F), once the render has applied it, makes *)
(* getDocumentFields(doc) return F: same length, same order, same fields,  *)
(* for every File object of that identity.                                 *)
C4_SetThenGetStep ==
    (Render /\ storeQueue # <<>> /\ storeQueue[Len(storeQueue)].op = "set") =>
        \A file \in Files :
            getDocumentKey(file) = storeQueue[Len(storeQueue)].key =>
                GetFrom(documentsWithFields', file) = storeQueue[Len(storeQueue)].fields

C4_SetThenGet == [][C4_SetThenGetStep]_vars

\* a render has applied an update and the document reads back a two-field list
C4_Witness ==
    /\ batch = 0
    /\ storeQueue = <<>>
    /\ getDocumentFields(FileA2) = <<SampleSignature, SampleName>>

(* C10: the store is replaced per key, last writer wins: a render leaves   *)
(* under every key exactly the list of the last update queued for it, with *)
(* nothing of an earlier list merged in, however many were queued; a key   *)
(* with no queued update keeps its entry.                                  *)
C10_LastWriterStep ==
    Render =>
        \A key \in Keys :
            IF QueuedFor(key) = {}
            THEN /\ (key \in DOMAIN documentsWithFields') = (key \in DOMAIN documentsWithFields)
                 /\ key \in DOMAIN documentsWithFields =>
                        documentsWithFields'[key] = documentsWithFields[key]
            ELSE IF LastQueuedFor(key).op = "set"
                 THEN /\ key \in DOMAIN documentsWithFields'
                      /\ documentsWithFields'[key] = LastQueuedFor(key).fields
                 ELSE key \notin DOMAIN documentsWithFields'

C10_LastWriterWins == [][C10_LastWriterStep]_vars

\* two updates of one identity, with different lists, are queued before a render
C10_Witness ==
    \E i, j \in DOMAIN storeQueue :
        /\ i < j
        /\ storeQueue[i].op = "set"
        /\ storeQueue[j].op = "set"
        /\ storeQueue[i].key = storeQueue[j].key
        /\ storeQueue[i].fields # <<>>
        /\ storeQueue[j].fields # <<>>
        /\ storeQueue[i].fields # storeQueue[j].fields

-----------------------------------------------------------------------------
(* The finalize operation seen from outside *)

Settled == pdfPc \in {"settled", "done"} /\ pdfResult.state # "none"
OutPages == pdfResult.blob.pages
PositionedPath == originalFile.file.type = PdfType /\ Len(fieldPositions) > 0
MergeWorks == faults \cap {"load", "copyPages", "saveOriginal"} = {}

HasPiece(text, piece) == \E i \in DOMAIN text : text[i] = piece

PageShows(page, piece) ==
    \E i \in DOMAIN page.draws : page.draws[i].op = "text" /\ HasPiece(page.draws[i].text, piece)

IsSummaryPage(page) ==
    PageShows(page, "Name:") /\ PageShows(page, "Email:") /\ PageShows(page, "Date:")

FieldsOn(pageNumber) ==
    LET OnPage(field) == field.page = pageNumber IN SelectSeq(fieldPositions, OnPage)

(* C6, as the claim has it: finalizing a document with zero placed fields  *)
(* produces the fallback summary page with "Name:", "Email:" and "Date:".  *)
C6_ZeroFieldsGiveSummary ==
    (pdfEntry = "handleDownloadDocument" /\ pdfPc = "done"
        /\ getDocumentFields(originalFile.file) = <<>>) =>
            /\ downloaded # <<>>
            /\ IsSummaryPage(downloaded[1].blob.pages[1])

(* C6, amended: handleDownloadDocument on a document with zero fields      *)
(* shows "Please add and fill some fields before downloading." and         *)
(* produces nothing (generateSignedPDF and downloadBlob are not called);   *)
(* the fallback summary page, with "Name:", "Email:" and "Date:" on it, is *)
(* the first page of what generateSignedPDF returns when it is handed no   *)
(* field positions or a source that is not a PDF.                          *)
C6_SummaryOnlyFromGenerator ==
    /\ (pdfEntry = "handleDownloadDocument" /\ pdfPc = "done"
            /\ getDocumentFields(originalFile.file) = <<>>) =>
                /\ alerts = <<AddFieldsAlert>>
                /\ pdfResult = NoResult
                /\ downloaded = <<>>
                /\ ~isGeneratingPDF
    /\ (Settled /\ pdfResult.state = "resolved" /\ ~PositionedPath) =>
                /\ OutPages # <<>>
                /\ OutPages[1].src = 0
                /\ IsSummaryPage(OutPages[1])

\* handleDownloadDocument has run on a listed document that has no fields
C6_Witness ==
    /\ pdfEntry = "handleDownloadDocument"
    /\ pdfPc = "done"
    /\ originalFile.file = FileA
    /\ getDocumentFields(originalFile.file) = <<>>
    /\ alerts # <<>>

(* C7: on the positioned-field path a field whose page is above the page   *)
(* count, or below 1, is skipped: the call resolves, the output has the    *)
(* source's pages and no more, and each page carries one drawing per field *)
(* of the list that names it, so nothing is drawn for the field out of     *)
(* range and every field in range is drawn.                                *)
C7_OutOfRangeSkipped ==
    (Settled /\ PositionedPath /\ faults \cap {"load", "saveOriginal"} = {}) =>
        /\ pdfResult.state = "resolved"
        /\ Len(OutPages) = Len(originalFile.pages)
        /\ \A p \in DOMAIN OutPages :
              /\ OutPages[p].src = p
              /\ Len(OutPages[p].draws) = Len(FieldsOn(p))

\* a field of page 5 and a field of page 1 were handed in with a 3-page source
C7_Witness ==
    /\ Settled
    /\ PositionedPath
    /\ pdfResult.state = "resolved"
    /\ Len(originalFile.pages) = 3
    /\ \E i, j \in DOMAIN fieldPositions :
          fieldPositions[i].page = 5 /\ fieldPositions[j].page = 1

(* C8: a name, email or date field in range, at preview (x, y) on a page   *)
(* of size (w, h), is drawn as text at ((x / 600) * w,                     *)
(* h - (y / 800) * h - 20); a name field at (100, 100) on a 612 x 792 page *)
(* is drawn at (102, 673).                                                 *)
C8_DrawnWhere(field, size, draw) ==
    field.type \in {"name", "email", "date"} =>
        /\ draw.op = "text"
        /\ draw.x.num * 600 = field.x * size.width * draw.x.den
        /\ draw.y.num * 800 = (800 * size.height - field.y * size.height - 20 * 800) * draw.y.den
        /\ (field.type = "name" /\ field.x = 100 /\ field.y = 100 /\ size = Letter) =>
                SameNumber(draw.x, Whole(102)) /\ SameNumber(draw.y, Whole(693 - 20))

C8_TextPosition ==
    (Settled /\ PositionedPath /\ pdfResult.state = "resolved") =>
        \A p \in DOMAIN OutPages :
            /\ Len(OutPages[p].draws) = Len(FieldsOn(p))
            /\ \A i \in DOMAIN FieldsOn(p) :
                  C8_DrawnWhere(FieldsOn(p)[i], OutPages[p].size, OutPages[p].draws[i])

\* a name field at (100, 100) was drawn on a 612 x 792 page, a date field on another page
C8_Witness ==
    /\ Settled
    /\ PositionedPath
    /\ pdfResult.state = "resolved"
    /\ \E i, j \in DOMAIN fieldPositions :
          /\ fieldPositions[i].type = "name" /\ fieldPositions[i].page = 1
          /\ fieldPositions[i].x = 100 /\ fieldPositions[i].y = 100
          /\ fieldPositions[j].type = "date" /\ fieldPositions[j].page = 2
          /\ Len(OutPages) >= 2

(* C9: the output has the source's page count on the positioned-field      *)
(* path, and one page more when the fallback path merges the summary page  *)
(* into a PDF source: the summary page first, the source pages after it in *)
(* their order.                                                            *)
C9_PageCount ==
    (Settled /\ pdfResult.state = "resolved" /\ originalFile.file.type = PdfType) =>
        IF PositionedPath
        THEN Len(OutPages) = Len(originalFile.pages)
        ELSE MergeWorks =>
                /\ Len(OutPages) = Len(originalFile.pages) + 1
                /\ OutPages[1].src = 0
                /\ \A i \in DOMAIN originalFile.pages : OutPages[i + 1] = originalFile.pages[i]

\* the summary page was merged into a 3-page PDF
C9_Witness ==
    /\ Settled
    /\ pdfResult.state = "resolved"
    /\ originalFile.file.type = PdfType
    /\ ~PositionedPath
    /\ MergeWorks
    /\ Len(originalFile.pages) = 3
    /\ Len(OutPages) = 4

-----------------------------------------------------------------------------
(* The store across a render *)

QueuedKeys == {storeQueue[i].key : i \in DOMAIN storeQueue}

\* the map without the entry of a key, written out
Without(map, key) == [k \in DOMAIN map \ {key} |-> map[k]]

\* the identity has no entry once the queue is applied: it was never set, or
\* the last call for it was removeDocumentFields
NoEntryAfter(key) ==
    IF QueuedFor(key) = {} THEN key \notin DOMAIN documentsWithFields
    ELSE LastQueuedFor(key).op = "delete"

(* C11: getDocumentFields(doc) returns the empty sequence, without failing, *)
(* for every identity with no entry in the store, be it never set or        *)
(* removed by removeDocumentFields; hasFields(doc) is then false and        *)
(* getFieldCount(doc) is 0.                                                 *)
C11_Absent(file) ==
    /\ getDocumentFields(file) = <<>>
    /\ hasFields(file) = FALSE
    /\ getFieldCount(file) = 0

C11_AbsentStep ==
    /\ \A file \in Files :
          getDocumentKey(file) \notin DOMAIN documentsWithFields => C11_Absent(file)
    /\ Render => \A file \in Files : NoEntryAfter(getDocumentKey(file)) => C11_Absent(file)'

C11_AbsentReadsEmpty == [][C11_AbsentStep]_vars
\* removeDocumentFields was called for a document that has fields, no render since
C11_Witness ==
    \E file \in Files :
        /\ hasFields(file)
        /\ storeQueue = <<DeleteUpdater(getDocumentKey(file))>>

(* C12: removeDocumentFields is idempotent: applied twice (or more) to one  *)
(* document it leaves the store as applying it once does, that is the old   *)
(* store without the document's entry; applied to a document with no entry  *)
(* it leaves the store's contents unchanged.                                *)
C12_IdempotentStep ==
    \A key \in Keys :
        (Render /\ storeQueue # <<>>
            /\ \A i \in DOMAIN storeQueue : storeQueue[i] = DeleteUpdater(key)) =>
                /\ documentsWithFields' = Without(documentsWithFields, key)
                /\ key \notin DOMAIN documentsWithFields =>
                        documentsWithFields' = documentsWithFields

C12_RemoveIdempotent == [][C12_IdempotentStep]_vars

\* removeDocumentFields was called twice for a document that has an entry, no render since
C12_Witness ==
    \E key \in Keys :
        /\ key \in DOMAIN documentsWithFields
        /\ documentsWithFields[key] # <<>>
        /\ storeQueue = <<DeleteUpdater(key), DeleteUpdater(key)>>

(* C13: field lists are per identity: updateDocumentFields(doc, F) and      *)
(* removeDocumentFields(doc) change the entry of doc's identity only; the   *)
(* list stored under every other identity, and whether there is one, stays  *)
(* as it was.                                                               *)
C13_FrameStep ==
    Render =>
        \A key \in Keys \ QueuedKeys :
            /\ (key \in DOMAIN documentsWithFields') = (key \in DOMAIN documentsWithFields)
            /\ key \in DOMAIN documentsWithFields =>
                    documentsWithFields'[key] = documentsWithFields[key]

C13_OtherIdentitiesKept == [][C13_FrameStep]_vars

\* a set and a remove are queued for one identity while another holds a list
C13_Witness ==
    \E key, other \in Keys :
        /\ key # other
        /\ other \in DOMAIN documentsWithFields
        /\ documentsWithFields[other] # <<>>
        /\ QueuedKeys = {key}
        /\ \E i, j \in DOMAIN storeQueue : storeQueue[i].op = "set" /\ storeQueue[j].op = "delete"

-----------------------------------------------------------------------------
(* The store's key: DocumentUpload with FileA and FileA2 listed, and the     *)
(* hook called for them and for files that differ from FileA in the name,    *)
(* in the size or in lastModified alone.                                     *)

FileRenamed == [FileA EXCEPT !.oid = 4, !.name = <<"a", "-", "1", ".", "pdf">>]
FileResized == [FileA EXCEPT !.oid = 5, !.size = 11]
FileTouched == [FileA EXCEPT !.oid = 6, !.lastModified = 2]

KeyFiles == {FileA, FileA2, FileRenamed, FileResized, FileTouched}

KeysInit ==
    /\ uploadedFiles = <<FileA, FileA2>>
    /\ uploadedNext = NoUpdate
    /\ previewFile = NoFile
    /\ previewNext = NoUpdate
    /\ documentsWithFields = <<>>
    /\ storeQueue = <<>>
    /\ placedFields = <<>>
    /\ placedNext = NoUpdate
    /\ activeField = NoActive
    /\ activeNext = NoUpdate
    /\ currentPage = 1
    /\ dndActive = NoDrag
    /\ textContent = <<>>
    /\ textNext = NoUpdate
    /\ previewUrl = <<>>
    /\ urlNext = NoUpdate
    /\ isLoading = FALSE
    /\ loadingNext = NoUpdate
    /\ reads = {}
    /\ now = 0
    /\ batch = 0
    /\ PdfIdle

KeysNext ==
    \/ \E file \in KeyFiles : CallUpdateDocumentFields(file, <<SampleName>>)
    \/ \E index \in 1..MaxUploads : removeFile(index)
    \/ Render

SpecKeys == KeysInit /\ [][KeysNext]_vars

SameTriple(f, g) == f.name = g.name /\ f.size = g.size /\ f.lastModified = g.lastModified

ListChanges(file) == GetFrom(documentsWithFields', file) # GetFrom(documentsWithFields, file)

(* C14: the key comes from name, size and lastModified only.  Two File      *)
(* objects equal in the three read the same list after every render (what   *)
(* is set through one is returned for the other, removing one clears both), *)
(* and one call changes the lists of files equal in the three only: a file  *)
(* that differs in the name, the size or lastModified keeps its list.       *)
C14_KeyStep ==
    Render =>
        /\ \A f, g \in KeyFiles :
              SameTriple(f, g) => GetFrom(documentsWithFields', f) = GetFrom(documentsWithFields', g)
        /\ Len(storeQueue) = 1 =>
              \A f, g \in KeyFiles : (ListChanges(f) /\ ListChanges(g)) => SameTriple(f, g)
        /\ (Len(storeQueue) = 1 /\ ListChanges(FileA)) => ListChanges(FileA2)

C14_KeyFromTriple == [][C14_KeyStep]_vars

\* FileA was removed from the list while FileA2 stays and reads the fields set for them
C14_Witness ==
    /\ uploadedFiles = <<FileA, FileA2>>
    /\ uploadedNext = Pending(<<FileA2>>)
    /\ getDocumentFields(FileA2) = <<SampleName>>
    /\ \A file \in {FileRenamed, FileResized, FileTouched} : getDocumentFields(file) = <<SampleName>>
    /\ storeQueue = <<DeleteUpdater(getDocumentKey(FileA))>>

-----------------------------------------------------------------------------
(* The drag gesture of DocumentPreview in full: any draggable is picked up,  *)
(* and the gesture ends over the drop zone, elsewhere or nowhere, or is      *)
(* cancelled (Escape, a lost pointer).                                       *)

GestureNext ==
    \/ \E active \in Actives : onDragStart(active)
    \/ \E over \in Overs, delta \in Deltas \cup {NoDelta} : onDragEnd(over, delta)
    \/ onDragCancel
    \/ Render

SpecGesture == PreviewInit /\ [][GestureNext]_vars

\* the value activeField has once the pending update is applied
ActiveFieldAfter == Latest(activeField, activeNext)

NothingPlaced == UNCHANGED <<placedFields, placedNext, documentsWithFields, storeQueue>>

(* C15: a drag that ends off the drop surface (over null, or not the drop   *)
(* zone), that is cancelled, or whose payload is no field token, sets       *)
(* activeField to null and creates no field: the list and the store stay    *)
(* as they are and onFieldsChanged is not called.  DndContext is given no   *)
(* onDragCancel, so a cancelled drag leaves activeField set.                *)
C15_AbortStep ==
    /\ \A over \in Overs, delta \in Deltas \cup {NoDelta} :
          (onDragEnd(over, delta) /\ (over # DropZone \/ dndActive.type # "field")) =>
                ActiveFieldAfter' = NoActive /\ NothingPlaced
    /\ onDragCancel => (ActiveFieldAfter' = NoActive /\ NothingPlaced)

C15_AbortReturnsToIdle == [][C15_AbortStep]_vars

(* C17: while activeField is not null, a drag-start event changes nothing:  *)
(* id and kind of the active field stay those of the first gesture.         *)
(* handleDragStart sets activeField whatever it holds; after a cancelled    *)
(* drag (C15) it still holds the first token when the next drag starts.     *)
C17_SecondStartStep ==
    \A active \in Actives :
        (onDragStart(active) /\ activeField # NoActive /\ activeNext = NoUpdate) =>
            ActiveFieldAfter' = activeField

-----------------------------------------------------------------------------
\* the list as the commits and removals so far have left it
PlacedFieldsAfter == Latest(placedFields, placedNext)

\* the step appends the field to the list and persists the list so extended
AppendsAndPersists(field) ==
    /\ field.page = currentPage
    /\ PlacedFieldsAfter' = Append(PlacedFieldsAfter, field)
    /\ storeQueue' = Append(storeQueue,
                            SetUpdater(getDocumentKey(previewFile), Append(PlacedFieldsAfter, field)))

(* C16: each commit appends exactly one new field, with page = currentPage, *)
(* to the end of the list as the earlier commits left it, and persists that *)
(* list plus the new record, so n commits without removals leave n fields   *)
(* in commit order, two commits before a re-render included.                *)
(* handleFieldPlaced extends the placedFields of the last render, so the    *)
(* second of two commits before a re-render replaces the first.             *)
C16_CommitStep ==
    /\ \A over \in Overs, delta \in Deltas :
          (onDragEnd(over, delta) /\ DragEndCommits(dndActive, over, delta)) =>
                AppendsAndPersists(DragEndField(dndActive, delta))
    /\ \A point \in DropPoints, fieldType \in Kinds :
          handleDrop(point, FALSE, fieldType) => AppendsAndPersists(DropField(point, fieldType))

C16_CommitsAppend == [][C16_CommitStep]_vars

-----------------------------------------------------------------------------
(* Faults of the finalize operation *)

IsSummaryAlone(pages) == Len(pages) = 1 /\ pages[1].src = 0 /\ IsSummaryPage(pages[1])

(* C18: when the source cannot be loaded or merged, signing degrades to the *)
(* summary page instead of failing; in particular, when loading the source  *)
(* PDF fails on the positioned-field path, generateSignedPDF still returns  *)
(* a blob, the summary page.  The positioned path has no catch of its own:  *)
(* the load error reaches generateSignedPDF's catch, which throws.          *)
C18_LoadFailureDegrades ==
    (Settled /\ originalFile.file.type = PdfType
        /\ ("load" \in faults \/ (~PositionedPath /\ ~MergeWorks))) =>
            /\ pdfResult.state = "resolved"
            /\ IsSummaryAlone(OutPages)

(* C19: on the fallback summary path with a PDF source, when loading the    *)
(* source, copying the page into it or saving the merged document throws,   *)
(* the operation returns the summary page alone, a one-page document, and   *)
(* does not fail; with a source that is not a PDF it returns the summary    *)
(* page alone whatever the merge would do (saving the summary document      *)
(* itself works).                                                           *)
C19_MergeFailureGivesSummary ==
    (Settled /\ ~PositionedPath /\ "saveSummary" \notin faults) =>
        /\ pdfResult.state = "resolved"
        /\ (originalFile.file.type = PdfType /\ ~MergeWorks) => IsSummaryAlone(OutPages)
        /\ originalFile.file.type # PdfType => IsSummaryAlone(OutPages)

\* copying the summary page into a 3-page source threw and one page came back
C19_Witness ==
    /\ Settled
    /\ ~PositionedPath
    /\ originalFile.file.type = PdfType
    /\ Len(originalFile.pages) = 3
    /\ "copyPages" \in faults
    /\ pdfResult.state = "resolved"
    /\ Len(OutPages) = 1

Placeholder == <<"[Digital Signature]">>

C20_DrawnAsText(field, draw) ==
    /\ draw.op = "text"
    /\ draw.text = CASE field.type = "signature" -> Placeholder
                     [] field.type = "name" -> signatureData.name
                     [] field.type = "email" -> signatureData.email
                     [] field.type = "date" -> signatureData.date

(* C20: when decoding or embedding the signature image fails, signing does  *)
(* not abort: on the positioned path every signature field in range is      *)
(* drawn as the text "[Digital Signature]" and the other fields are drawn   *)
(* as before; on the summary path "Signature: [Digital Signature Applied]"  *)
(* is drawn and no image; a blob is returned either way.                    *)
C20_ImageFailureGivesPlaceholder ==
    (Settled /\ "embedSignature" \in faults /\ signatureData.signature # <<>>) =>
        /\ pdfResult.state = "resolved"
        /\ PositionedPath =>
              \A p \in DOMAIN OutPages :
                  /\ Len(OutPages[p].draws) = Len(FieldsOn(p))
                  /\ \A i \in DOMAIN FieldsOn(p) :
                        C20_DrawnAsText(FieldsOn(p)[i], OutPages[p].draws[i])
        /\ ~PositionedPath =>
              /\ PageShows(OutPages[1], "[Digital Signature Applied]")
              /\ \A i \in DOMAIN OutPages[1].draws : OutPages[1].draws[i].op = "text"

\* embedding failed with a signature field and a name field on page 1
C20_Witness ==
    /\ Settled
    /\ "embedSignature" \in faults
    /\ signatureData.signature # <<>>
    /\ PositionedPath
    /\ pdfResult.state = "resolved"
    /\ \E i, j \in DOMAIN fieldPositions :
          /\ fieldPositions[i].type = "signature" /\ fieldPositions[i].page = 1
          /\ fieldPositions[j].type = "name" /\ fieldPositions[j].page = 1

-----------------------------------------------------------------------------
(* handleDownloadDocument seen from outside *)

Downloading == pdfEntry = "handleDownloadDocument"

\* the value is missing, empty, or made of white space only
ValueMissing(field) ==
    \/ "value" \notin DOMAIN field
    \/ \A i \in DOMAIN field.value : field.value[i] = " "

StoredList == getDocumentFields(originalFile.file)

(* C21: finalizing a document whose list has a field with a missing, empty  *)
(* or whitespace-only value shows the blocking message and stops before any *)
(* output: generateSignedPDF and downloadBlob are not called and            *)
(* isGeneratingPDF is never set.                                            *)
C21_EmptyFieldBlocks ==
    (Downloading /\ \E i \in DOMAIN StoredList : ValueMissing(StoredList[i])) =>
        /\ pdfPc \in {"start", "done"}
        /\ ~isGeneratingPDF
        /\ pdfResult = NoResult
        /\ downloaded = <<>>
        /\ pdfPc = "done" => alerts = <<FillFieldsAlert>>

\* the handler has run on a list of a filled field and a whitespace-only one
C21_Witness ==
    /\ Downloading
    /\ pdfPc = "done"
    /\ Len(StoredList) = 2
    /\ ~ValueMissing(StoredList[1])
    /\ "value" \in DOMAIN StoredList[2]
    /\ StoredList[2].value = Blank
    /\ alerts = <<FillFieldsAlert>>

(* C22: when generation throws, nothing is offered for download:            *)
(* downloadBlob is called only once generateSignedPDF has resolved, and     *)
(* with its blob; a failure shows the one generic error message; and        *)
(* isGeneratingPDF, set while the call is under way, is false again after   *)
(* success and after failure.                                               *)
C22_NoArtifactOnFailure ==
    Downloading =>
        /\ downloaded # <<>> =>
              /\ pdfResult.state = "resolved"
              /\ Len(downloaded) = 1
              /\ downloaded[1].blob = pdfResult.blob
        /\ pdfPc \in {"generating", "settled"} => isGeneratingPDF
        /\ (pdfPc = "done" /\ pdfResult.state = "rejected") =>
              /\ downloaded = <<>>
              /\ alerts = <<ErrorAlert>>
              /\ ~isGeneratingPDF
        /\ (pdfPc = "done" /\ pdfResult.state = "resolved") =>
              /\ Len(downloaded) = 1
              /\ alerts = <<>>
              /\ ~isGeneratingPDF

\* saving the drawn document threw and the handler has finished
C22_Witness ==
    /\ Downloading
    /\ pdfPc = "done"
    /\ "saveOriginal" \in faults
    /\ pdfResult.state = "rejected"
    /\ alerts = <<ErrorAlert>>

-----------------------------------------------------------------------------
(* The dialog's content reads: text files and a PDF in the list, previewed,   *)
(* removed, closed and reopened while reads are under way.                    *)

ReadLists == {<<FileT, FileU>>, <<FileT, FileA>>, <<FileA, FileT>>}

ReadInit ==
    /\ UiInit
    /\ PdfIdle

ReadStart(list) ==
    /\ CanHandle
    /\ uploadedFiles = <<>>
    /\ uploadedNext = NoUpdate
    /\ batch' = batch + 1
    /\ uploadedNext' = Pending(list)
    /\ UNCHANGED <<uploadedFiles, previewFile, previewNext, documentsWithFields, storeQueue,
                   placedFields, placedNext, activeField, activeNext, currentPage, now>>
    /\ UNCHANGED <<dndActive, loadVars, pdfVars>>

ReadNext ==
    \/ \E list \in ReadLists : ReadStart(list)
    \/ onSubmit
    \/ \E index \in 1..MaxUploads : PreviewClicked(index)
    \/ \E index \in 1..MaxUploads : removeFile(index)
    \/ onClose
    \/ \E read \in reads, resolved \in BOOLEAN : ReadSettles(read, resolved)
    \/ Render

SpecRead == ReadInit /\ [][ReadNext]_vars

contentCells == <<textContent, textNext, previewUrl, urlNext, isLoading, loadingNext>>

\* the read's effect was cleaned up: the preview was closed or moved to
\* another file after the read began
Stale(read) == ~read.isMounted

\* a settling read whose effect was cleaned up leaves every content cell alone
C23_StaleStep ==
    \A read \in reads, resolved \in BOOLEAN :
        (ReadSettles(read, resolved) /\ Stale(read)) => UNCHANGED contentCells

\* a read whose effect is still in force is a read of the previewed file
C23_LiveReadsBelong ==
    \A read \in reads : ~Stale(read) => read.file = previewFile

\* text in the dialog is the text of the file the dialog is rendered for
C23_ShownBelongs ==
    ShownText # <<>> => ShownText = TextOf(previewFile)

C23_StaleReadsKept == [][C23_StaleStep]_vars /\ []C23_LiveReadsBelong

\* C23: a read that settles after the preview was closed or moved to another
\* file sets none of textContent, previewUrl, isLoading, and the text shown is
\* always the text of the file being previewed.
C23_StaleCommitsNothing ==
    /\ [][C23_StaleStep]_vars
    /\ []C23_LiveReadsBelong
    /\ []C23_ShownBelongs

-----------------------------------------------------------------------------
(* Gestures on a surface that may be closed while one is under way *)

CloseNext ==
    \/ GestureNext
    \/ onClose

SpecClose == PreviewInit /\ [][CloseNext]_vars

\* the store as it stands once the queued updaters have run
SettledStore == ProcessQueue(documentsWithFields, storeQueue)

\* onClose ran while a gesture was under way
ClosedDuringDrag == dndActive # NoDrag /\ Latest(previewFile, previewNext) = NoFile

C24_CloseStep == ClosedDuringDrag => SettledStore' = SettledStore

-----------------------------------------------------------------------------
\* the step appended a field of the kind whose corner is the pointer's place
\* on the surface less half of the kind's default size, floored at 0
CommittedAt(kind, px, py) ==
    /\ placedNext' # NoUpdate
    /\ Len(placedNext'[1]) > 0
    /\ LET field == placedNext'[1][Len(placedNext'[1])]
       IN  /\ field.type = kind
           /\ field.x = Max(0, px - (DefaultWidth(kind) \div 2))
           /\ field.y = Max(0, py - (DefaultHeight(kind) \div 2))

C25_DropStep ==
    \A point \in DropPoints, kind \in Kinds :
        handleDrop(point, FALSE, kind) => CommittedAt(kind, point[1], point[2])

\* the pointer of a dnd-kit gesture is taken to start at (100, 100) on the
\* surface, as handleDragEnd takes it
C25_DragEndStep ==
    \A over \in Overs, delta \in Deltas :
        (onDragEnd(over, delta) /\ DragEndCommits(dndActive, over, delta))
            => CommittedAt(dndActive.fieldType, 100 + delta[1], 100 + delta[2])

\* C25: a commit stores max(0, pointer - surface origin - half the kind's
\* default size) on each axis, the default size being 120x40 for a signature
\* and 100x30 for the other kinds.
C25_CenteredOnPointer == [][C25_DropStep /\ C25_DragEndStep]_vars

-----------------------------------------------------------------------------
(* A session on two uploaded documents: previews opened from the list, also  *)
(* while one is open, and closed, fields dropped and removed.                *)

SessionInit ==
    /\ uploadedFiles = <<FileA, FileB>>
    /\ uploadedNext = NoUpdate
    /\ previewFile = NoFile
    /\ previewNext = NoUpdate
    /\ documentsWithFields = <<>>
    /\ storeQueue = <<>>
    /\ placedFields = <<>>
    /\ placedNext = NoUpdate
    /\ activeField = NoActive
    /\ activeNext = NoUpdate
    /\ currentPage = 1
    /\ dndActive = NoDrag
    /\ textContent = <<>>
    /\ textNext = NoUpdate
    /\ previewUrl = <<>>
    /\ urlNext = NoUpdate
    /\ isLoading = FALSE
    /\ loadingNext = NoUpdate
    /\ reads = {}
    /\ now = 0
    /\ batch = 0
    /\ PdfIdle

SessionNext ==
    \/ \E index \in 1..MaxUploads : PreviewClicked(index)
    \/ onClose
    \/ \E point \in DropPoints, fieldType \in Kinds : handleDrop(point, FALSE, fieldType)
    \/ \E fieldId \in PlacedIds : handleFieldRemoved(fieldId)
    \/ Render

SpecSession == SessionInit /\ [][SessionNext]_vars

\* the session, with files removed from the list as well
RemovalNext ==
    \/ SessionNext
    \/ \E index \in 1..MaxUploads : removeFile(index)

SpecRemoval == SessionInit /\ [][RemovalNext]_vars

\* the list the settled store holds under a key
ListUnder(key) == IF key \in DOMAIN SettledStore THEN SettledStore[key] ELSE <<>>

\* the field is stored under another key and not under this one
FromElsewhere(field, key) ==
    /\ field \notin Range(ListUnder(key))
    /\ \E other \in DOMAIN SettledStore \ {key} : field \in Range(SettledStore[other])

LastQueued == storeQueue'[Len(storeQueue')]

C26_PlaceStep ==
    \A point \in DropPoints, fieldType \in Kinds :
        handleDrop(point, FALSE, fieldType) =>
            \A i \in 1..(Len(LastQueued.fields) - 1) :
                ~FromElsewhere(LastQueued.fields[i], LastQueued.key)

C26_RemoveStep ==
    \A fieldId \in PlacedIds :
        handleFieldRemoved(fieldId) =>
            \A i \in DOMAIN LastQueued.fields :
                ~FromElsewhere(LastQueued.fields[i], LastQueued.key)

\* C26: whatever previews are opened, switched, and whatever is placed and
\* removed, a list persisted under a document holds no field that was placed
\* under another document: beside the field the step creates, no field of the
\* persisted list is one stored under another key only.
C26_NoCrossPersist == [][C26_PlaceStep /\ C26_RemoveStep]_vars

-----------------------------------------------------------------------------
\* the keys of the documents in the list, pending change included
UploadedKeys == {getDocumentKey(FormFiles[i]) : i \in DOMAIN FormFiles}

C27_KeysAreUploaded == DOMAIN SettledStore \subseteq UploadedKeys

C27_RemoveStep ==
    \A index \in 1..MaxUploads :
        removeFile(index) =>
            \A key \in DOMAIN SettledStore \ {getDocumentKey(uploadedFiles[index])} :
                /\ key \in DOMAIN SettledStore'
                /\ SettledStore'[key] = SettledStore[key]

\* C27: every key of the store is the key of a document in uploadedFiles: a
\* removed document's entry is gone and stays gone, and removing a document
\* leaves the lists of the other documents as they were.
C27_StoreFollowsUploads == []C27_KeysAreUploaded /\ [][C27_RemoveStep]_vars

-----------------------------------------------------------------------------
\* the preview's list, pending change included
LocalList == Latest(placedFields, placedNext)

\* the list the settled store holds for the document of the rendered preview
StoredHere == ListUnder(getDocumentKey(previewFile))

C28_EditStep ==
    /\ \A point \in DropPoints, fieldType \in Kinds :
          handleDrop(point, FALSE, fieldType) => LocalList' = StoredHere'
    /\ \A fieldId \in PlacedIds :
          handleFieldRemoved(fieldId) => LocalList' = StoredHere'

C28_OpenStep ==
    (previewFile = NoFile /\ previewFile' # NoFile) =>
        placedFields' = IF getDocumentKey(previewFile') \in DOMAIN documentsWithFields'
                        THEN documentsWithFields'[getDocumentKey(previewFile')]
                        ELSE <<>>

\* C28: a placement or a removal leaves the preview's list and the list
\* stored for its document equal, and a preview that opens starts from the
\* list stored for its document.
C28_LocalMatchesStore == [][C28_EditStep /\ C28_OpenStep]_vars

\* a preview opened on a document with two stored fields, and one of them
\* removed since
C28_Witness ==
    /\ Mounted
    /\ Len(placedFields) = 2
    /\ getDocumentKey(previewFile) \in DOMAIN documentsWithFields
    /\ documentsWithFields[getDocumentKey(previewFile)] = placedFields
    /\ placedNext # NoUpdate
    /\ Len(LocalList) = 1
    /\ StoredHere = LocalList

-----------------------------------------------------------------------------
(* Placement and download together: fields are put on the previewed file and *)
(* taken off it, and the file's download button is pressed.                  *)

\* the download button of a listed file: shown when hasFields(file), disabled
\* while a document is generated; its onClick is handleDownloadDocument(file)
DownloadClicked(index) ==
    /\ pdfPc \in {"idle", "done"}
    /\ ~isGeneratingPDF
    /\ index \in 1..Len(uploadedFiles)
    /\ hasFields(uploadedFiles[index])
    /\ pdfPc' = "start"
    /\ pdfEntry' = "handleDownloadDocument"
    /\ originalFile' = [file |-> uploadedFiles[index], pages |-> SourcePages(1)]
    /\ alerts' = <<>>
    /\ UNCHANGED <<fieldPositions, signatureData, faults, isGeneratingPDF, pdfResult, downloaded>>
    /\ uiUnchanged

\* the handler runs in the click's own event: nothing comes between
FlowNext ==
    \/ /\ pdfPc # "start"
       /\ \/ \E active \in Tokens : onDragStart(active)
          \/ \E over \in Overs, delta \in Deltas : onDragEnd(over, delta)
          \/ \E point \in DropPoints, fieldType \in Kinds : handleDrop(point, FALSE, fieldType)
          \/ \E fieldId \in PlacedIds : handleFieldRemoved(fieldId)
          \/ Render
    \/ \E index \in 1..MaxUploads : DownloadClicked(index)
    \/ handleDownloadDocument

SpecFlow == PreviewInit /\ [][FlowNext]_vars

\* C29: no field of any list has a value, so handleDownloadDocument never
\* gets past its two checks: it ends with one of the two validation alerts,
\* generateSignedPDF is not called and nothing is downloaded.
C29_NoValueNoDownload ==
    /\ \A fields \in FieldLists : \A i \in DOMAIN fields : "value" \notin DOMAIN fields[i]
    /\ pdfPc \in {"idle", "start", "done"}
    /\ ~isGeneratingPDF
    /\ pdfResult = NoResult
    /\ downloaded = <<>>
    /\ pdfPc = "done" => alerts \in {<<AddFieldsAlert>>, <<FillFieldsAlert>>}

\* the download of a document with two placed fields has stopped at its alert
C29_Witness ==
    /\ pdfPc = "done"
    /\ alerts = <<FillFieldsAlert>>
    /\ Len(getDocumentFields(originalFile.file)) = 2
    /\ downloaded = <<>>

-----------------------------------------------------------------------------
\* the handler got past its checks and handed the stored list on
Finalizing ==
    /\ Downloading
    /\ pdfPc \in {"generating", "settled"} \/ (pdfPc = "done" /\ pdfResult # NoResult)

\* the first field of the kind stands at index j of the list
IsFirstOfKind(fields, kind, j) ==
    /\ j \in DOMAIN fields
    /\ fields[j].type = kind
    /\ \A k \in 1..(j - 1) : fields[k].type # kind

\* the text is the value of the list's first field of the kind, or empty when
\* the list has none
IsContentOfKind(text, fields, kind) ==
    IF \E j \in DOMAIN fields : fields[j].type = kind
    THEN \E j \in DOMAIN fields : IsFirstOfKind(fields, kind, j) /\ text = fields[j].value
    ELSE text = <<>>

C30_DrawnAsFirst(field, draw) ==
    IF field.type = "signature"
    THEN draw.op = "image" \/ (draw.op = "text" /\ draw.text = Placeholder)
    ELSE draw.op = "text" /\ IsContentOfKind(draw.text, StoredList, field.type)

\* C30: at finalize the content of each kind is the value of the first field
\* of the kind in the list, empty when the list has no field of the kind, and
\* every field of a kind, on whatever page, is drawn with that content (a
\* signature with the one image).
C30_FirstOfKindDrawn ==
    Finalizing =>
        /\ fieldPositions = StoredList
        /\ \A kind \in FieldType : IsContentOfKind(signatureData[kind], StoredList, kind)
        /\ (Settled /\ PositionedPath /\ pdfResult.state = "resolved") =>
              \A p \in DOMAIN OutPages :
                  /\ Len(OutPages[p].draws) = Len(FieldsOn(p))
                  /\ \A i \in DOMAIN FieldsOn(p) :
                        C30_DrawnAsFirst(FieldsOn(p)[i], OutPages[p].draws[i])

\* two name fields with different values were finalized and drawn
C30_Witness ==
    /\ Finalizing
    /\ Settled
    /\ PositionedPath
    /\ pdfResult.state = "resolved"
    /\ Len(StoredList) = 2
    /\ StoredList[1].type = "name" /\ StoredList[2].type = "name"
    /\ StoredList[1].value # StoredList[2].value
    /\ Len(OutPages[1].draws) = 2
    /\ OutPages[1].draws[2].text = StoredList[1].value

====
